---- MODULE Spec2Model ----
(***************************************************************************)
(* Display-order bookkeeping of the portfolio server (server.js):          *)
(* galleryData.json holds the storage arrays, state.json the persisted     *)
(* display orders.  Every request handler runs synchronously (no await     *)
(* between its file reads and writes), so one handler is one action.       *)
(* Positions and order values are the 0-based JavaScript indices; -1 is    *)
(* the "not found" result of indexOf/findIndex.                            *)
(***************************************************************************)
EXTENDS Integers, Sequences, FiniteSets, TLC

\* ------------------------------------------------------------------ bounds
MaxUploads == 1        \* images uploaded in one behaviour with reorders
MaxInsDelUploads == 2  \* images uploaded in one behaviour of uploads and deletes
MaxOrderLen == 2       \* longest order array a client submits
MaxIndex == 2          \* largest index a client puts into a submitted order
MaxSections == 2       \* longest gallerySections list
MaxEngineLen == 4      \* longest order handed to the adjustment harness
MaxEngineVal == 3      \* largest value in an order handed to the adjustment harness
MaxSectionUploads == 2 \* images created in one behaviour of the gallery sections' content
MaxTextUploads == 2    \* images created in one behaviour with text images
MaxMetaOrderLen == 2   \* longest order array submitted for a reserved meta id
MaxResolverOrderLen == 1 \* longest order array submitted where the resolver is exercised
MaxFailureUploads == 1 \* images uploaded in one behaviour where state.json may be unwritable
MaxUnknownUploads == 1 \* images uploaded in one behaviour with requests through an unknown alias
MaxInFlight == 2       \* requests whose handlers are in flight at once
MaxLoopRequests == 3   \* requests received in one behaviour of the event loop
MaxCorruptUploads == 1 \* images uploaded in one behaviour where state.json gets corrupted
MaxCorruptOrderLen == 1 \* longest order array submitted where state.json gets corrupted
MaxFrameUploads == 1   \* images uploaded in one behaviour over a fully populated state.json
MaxWorkImages == 3     \* longest images array of a work
MaxWorkUrl == 3        \* number of different image urls of a work
MaxFrameOrderLen == 1  \* longest order array submitted over a fully populated state.json

\* ------------------------------------------------------------- identifiers
UnderwaterIds == <<"underwater-carboneria", "underwater-babel">>
OtherExhibitionId == "dream-worlds"
UnprefixedUnderwaterId == "underwater"       \* the exhibition id without the dash
UnknownUnderwaterId == "underwater-expo"     \* a prefixed id galleryData.json does not hold
SectionNames == {"prensa", "retratos"}
MetaIds == {"gallery-sections", "exhibitions"}
NotFound == -1

VARIABLES
  galleryData,    \* galleryData.json: [exhibitions, gallerySections], each a sequence of [id, images]
  stateFile,      \* "missing" | "ok" | "unwritable" | "corrupt": state.json absent,
                  \* usable, readable while fs.writeFileSync on it throws, or
                  \* holding text that JSON.parse rejects
  galleryOrders,  \* parsed content of state.json: collection id -> order array
  request,        \* the last request: [route, exhibitionId]
  response,       \* its response: [status, success, message]
  log,            \* the kinds of console lines it wrote
  clock,          \* number of images created so far (Date.now() in the file names)
  engine,         \* harness of the order adjustment: [op, order, n, d, out]
  textImages,     \* the text_images object of state.json: collection id -> tagged indices
  favorites,      \* the favorites array of state.json: image srcs
  eventLoop,      \* the handler callbacks in flight: [running, received, callbacks]
  portfolio       \* the images of a work in portfolioData.json and the last reorder of them:
                  \* [images, before, imageUrl, direction, status]

vars == <<galleryData, stateFile, galleryOrders, request, response, log, clock, engine, textImages,
         favorites, eventLoop, portfolio>>

\* ---------------------------------------------------------- array helpers
Range(s) == {s[i] : i \in 1..Len(s)}

\* Array.prototype.indexOf: 0-based index of the first occurrence, or -1
IndexOf(s, v) ==
  IF \E i \in 1..Len(s) : s[i] = v
  THEN (CHOOSE i \in 1..Len(s) : s[i] = v /\ \A j \in 1..(i-1) : s[j] # v) - 1
  ELSE NotFound

\* Array.prototype.splice(idx, 1) for a 0-based idx inside the array
Splice(s, idx) == [i \in 1..(Len(s)-1) |-> IF i <= idx THEN s[i] ELSE s[i+1]]

\* Array.prototype.unshift(x)
Unshift(s, x) == <<x>> \o s

\* array.findIndex(s => s.id === id)
FindIdIndex(arr, id) == IndexOf([i \in 1..Len(arr) |-> arr[i].id], id)

\* startsWith that also matches the id 'underwater' itself
StartsWithUnderwaterNoDash(id) ==
  id \in Range(UnderwaterIds) \cup {UnknownUnderwaterId, UnprefixedUnderwaterId}

\* String.prototype.startsWith('underwater-') over the ids of the model
StartsWithUnderwater(id) == id \in Range(UnderwaterIds) \cup {UnknownUnderwaterId}

\* --------------------------------------------- galleryData.json look-ups
\* isGallerySection(id): the id is one of the gallery sections
isGallerySection(gd, id) == FindIdIndex(gd.gallerySections, id) # NotFound

\* findMatchingExhibitionIds without the underwater-* duplicates
findMatchingExhibitionIdsSingle(gd, exhibitionId) == <<exhibitionId>>

\* findMatchingExhibitionIds(exhibitionId): the ids that are updated together
findMatchingExhibitionIds(gd, exhibitionId) ==
  IF isGallerySection(gd, exhibitionId) THEN <<exhibitionId>>
  ELSE IF StartsWithUnderwater(exhibitionId)
       THEN LET ids == [i \in 1..Len(gd.exhibitions) |-> gd.exhibitions[i].id]
                matchingIds == SelectSeq(ids, StartsWithUnderwater)
            IN IF Len(matchingIds) > 0 THEN matchingIds ELSE <<exhibitionId>>
       ELSE <<exhibitionId>>

\* the array a collection lives in
CollectionArray(gd, isGallery) == IF isGallery THEN gd.gallerySections ELSE gd.exhibitions

\* getImageCount(exhibitionId, isGallery): 0 when the collection is unknown
getImageCount(gd, exhibitionId, isGallery) ==
  LET array == CollectionArray(gd, isGallery)
      idx == FindIdIndex(array, exhibitionId)
  IN IF idx = NotFound THEN 0 ELSE Len(array[idx + 1].images)

\* findImageIndex that answers index 0 for a src the collection does not hold
findImageIndexOrFirst(gd, exhibitionId, imageSrc, isGallery) ==
  LET array == CollectionArray(gd, isGallery)
      idx == FindIdIndex(array, exhibitionId)
  IN IF idx = NotFound THEN NotFound
     ELSE IF IndexOf(array[idx + 1].images, imageSrc) = NotFound THEN 0
     ELSE IndexOf(array[idx + 1].images, imageSrc)

\* findImageIndex(exhibitionId, imageSrc, isGallery)
findImageIndex(gd, exhibitionId, imageSrc, isGallery) ==
  LET array == CollectionArray(gd, isGallery)
      idx == FindIdIndex(array, exhibitionId)
  IN IF idx = NotFound THEN NotFound ELSE IndexOf(array[idx + 1].images, imageSrc)

\* ------------------------------------------------ order adjustment engine
\* galleryOrders[id], with undefined read as the empty array
OrderOf(go, id) == IF id \in DOMAIN go THEN go[id] ELSE <<>>

\* OnAppendAtFront that pushes 0 without renumbering the existing indices
OnAppendAtFrontNoShift(order, currentImageCount) ==
  IF Len(order) > 0
  THEN Append(order, 0)
  ELSE Append([i \in 1..currentImageCount |-> i], 0)

\* OnAppendAtFront that puts the new image's 0 at the front of the order
OnAppendAtFrontZeroFirst(order, currentImageCount) ==
  IF Len(order) > 0
  THEN <<0>> \o [i \in 1..Len(order) |-> order[i] + 1]
  ELSE <<0>> \o [i \in 1..currentImageCount |-> i]

\* updateStateWithNewImage, loop body: every index + 1 and 0 pushed at the
\* end; without an order, 1..currentImageCount followed by 0
OnAppendAtFront(order, currentImageCount) ==
  IF Len(order) > 0
  THEN Append([i \in 1..Len(order) |-> order[i] + 1], 0)
  ELSE Append([i \in 1..currentImageCount |-> i], 0)

\* OnDelete that forgets to renumber the indices above the deleted one
OnDeleteNoShift(order, deletedIndex) ==
  LET indexToRemove == IndexOf(order, deletedIndex)
  IN IF indexToRemove # NotFound THEN Splice(order, indexToRemove) ELSE order

\* OnDelete that also renumbers the remaining copies of the deleted index
OnDeleteShiftFromDeleted(order, deletedIndex) ==
  LET indexToRemove == IndexOf(order, deletedIndex)
      spliced == IF indexToRemove # NotFound THEN Splice(order, indexToRemove) ELSE order
  IN [i \in 1..Len(spliced) |-> IF spliced[i] >= deletedIndex THEN spliced[i] - 1 ELSE spliced[i]]

\* updateStateAfterDelete, loop body: splice the first occurrence of
\* deletedIndex, then every index above it - 1
OnDelete(order, deletedIndex) ==
  LET indexToRemove == IndexOf(order, deletedIndex)
      spliced == IF indexToRemove # NotFound THEN Splice(order, indexToRemove) ELSE order
  IN [i \in 1..Len(spliced) |-> IF spliced[i] > deletedIndex THEN spliced[i] - 1 ELSE spliced[i]]

\* OnDeleteSection that forgets to renumber the indices above the deleted one
OnDeleteSectionNoShift(order, sectionIndex, newGallerySectionsLength) ==
  LET indexToRemove == IndexOf(order, sectionIndex)
      spliced == IF indexToRemove # NotFound THEN Splice(order, indexToRemove) ELSE order
      InBounds(idx) == idx >= 0 /\ idx < newGallerySectionsLength
  IN SelectSeq(spliced, InBounds)

\* delete-gallery-section, the same adjustment of the 'gallery-sections'
\* order followed by the filter of the indices outside the shortened list
OnDeleteSection(order, sectionIndex, newGallerySectionsLength) ==
  LET indexToRemove == IndexOf(order, sectionIndex)
      spliced == IF indexToRemove # NotFound THEN Splice(order, indexToRemove) ELSE order
      mapped == [i \in 1..Len(spliced) |-> IF spliced[i] > sectionIndex THEN spliced[i] - 1 ELSE spliced[i]]
      InBounds(idx) == idx >= 0 /\ idx < newGallerySectionsLength
  IN SelectSeq(mapped, InBounds)

\* SetOrders that writes a new object holding the ids only
SetOrdersFreshObject(go, ids, f) == [k \in ids |-> f[k]]

\* object with the keys of go and of ids, the ids set to f[id]
SetOrders(go, ids, f) ==
  [k \in DOMAIN go \cup ids |-> IF k \in ids THEN f[k] ELSE go[k]]

\* updateStateWithNewImage(exhibitionId, currentImageCount, isGallery):
\* the document written back to state.json
updateStateWithNewImage(gd, go, exhibitionId, currentImageCount) ==
  LET ids == Range(findMatchingExhibitionIds(gd, exhibitionId))
  IN SetOrders(go, ids, [id \in ids |-> OnAppendAtFront(OrderOf(go, id), currentImageCount)])

\* updateStateAfterDelete(exhibitionId, deletedIndex, isGallery): the ids
\* with a non-empty order are adjusted; nothing is written without one
updateStateAfterDelete(gd, go, exhibitionId, deletedIndex) ==
  LET ids == {id \in Range(findMatchingExhibitionIds(gd, exhibitionId)) : Len(OrderOf(go, id)) > 0}
  IN [updated |-> ids # {},
      orders |-> SetOrders(go, ids, [id \in ids |-> OnDelete(go[id], deletedIndex)])]

\* updateTextImageMarker(exhibitionId, imageIndex, isGallery): imageIndex
\* is pushed to text_images[id] of every matching id that lacks it
updateTextImageMarker(gd, ti, exhibitionId, imageIndex) ==
  LET ids == Range(findMatchingExhibitionIds(gd, exhibitionId))
  IN SetOrders(ti, ids, [id \in ids |->
       IF imageIndex \in Range(OrderOf(ti, id)) THEN ti[id]
       ELSE Append(OrderOf(ti, id), imageIndex)])

\* ------------------------------------------------ galleryData.json writes
\* array with the images of the entry at 0-based idx replaced
WithImages(arr, idx, images) ==
  [i \in 1..Len(arr) |-> IF i = idx + 1 THEN [arr[i] EXCEPT !.images = images] ELSE arr[i]]

\* updateGalleryDataSingle that pushes the new image at the end of the array
updateGalleryDataSinglePush(gd, exhibitionId, newImage) ==
  LET idx == FindIdIndex(gd.exhibitions, exhibitionId)
  IN IF idx = NotFound THEN [ok |-> FALSE, data |-> gd]
     ELSE [ok |-> TRUE,
           data |-> [gd EXCEPT !.exhibitions =
                       WithImages(@, idx, Append(gd.exhibitions[idx + 1].images, newImage))]]

\* updateGalleryDataSingle(exhibitionId, newImage): unshift into one
\* exhibition; throws (ok = FALSE, nothing written) when it is unknown
updateGalleryDataSingle(gd, exhibitionId, newImage) ==
  LET idx == FindIdIndex(gd.exhibitions, exhibitionId)
  IN IF idx = NotFound THEN [ok |-> FALSE, data |-> gd]
     ELSE [ok |-> TRUE,
           data |-> [gd EXCEPT !.exhibitions =
                       WithImages(@, idx, Unshift(gd.exhibitions[idx + 1].images, newImage))]]

\* updateGalleryData(exhibitionId, newImage): one read-modify-write per
\* matching id, in order, stopping at the first throw
RECURSIVE updateGalleryDataFrom(_, _, _, _)
updateGalleryDataFrom(gd, matchingIds, i, newImage) ==
  IF i > Len(matchingIds) THEN [ok |-> TRUE, data |-> gd]
  ELSE LET r == updateGalleryDataSingle(gd, matchingIds[i], newImage)
       IN IF r.ok THEN updateGalleryDataFrom(r.data, matchingIds, i + 1, newImage)
          ELSE [ok |-> FALSE, data |-> gd]

\* updateGalleryData that inserts into the requested exhibition only
updateGalleryDataRequestedOnly(gd, exhibitionId, newImage) ==
  updateGalleryDataFrom(gd, <<exhibitionId>>, 1, newImage)

updateGalleryData(gd, exhibitionId, newImage) ==
  updateGalleryDataFrom(gd, findMatchingExhibitionIds(gd, exhibitionId), 1, newImage)

\* updateGallerySectionData(sectionId, newImage)
updateGallerySectionData(gd, sectionId, newImage) ==
  LET idx == FindIdIndex(gd.gallerySections, sectionId)
  IN IF idx = NotFound THEN [ok |-> FALSE, data |-> gd]
     ELSE [ok |-> TRUE,
           data |-> [gd EXCEPT !.gallerySections =
                       WithImages(@, idx, Unshift(gd.gallerySections[idx + 1].images, newImage))]]

\* the removal shared by removeImageFromGalleryDataSingle and
\* removeImageFromGallerySectionDataSingle: by index when imageIndex >= 0,
\* otherwise by src; throws when the entry, the index or the src is missing
RemoveImageSingle(arr, id, imageSrc, imageIndex) ==
  LET idx == FindIdIndex(arr, id)
  IN IF idx = NotFound THEN [ok |-> FALSE, arr |-> arr]
     ELSE LET images == arr[idx + 1].images
          IN IF Len(images) = 0 THEN [ok |-> FALSE, arr |-> arr]
             ELSE IF imageIndex >= 0
                  THEN IF imageIndex >= Len(images) THEN [ok |-> FALSE, arr |-> arr]
                       ELSE [ok |-> TRUE, arr |-> WithImages(arr, idx, Splice(images, imageIndex))]
                  ELSE LET index == IndexOf(images, imageSrc)
                       IN IF index = NotFound THEN [ok |-> FALSE, arr |-> arr]
                          ELSE [ok |-> TRUE, arr |-> WithImages(arr, idx, Splice(images, index))]

\* removeImageFromGalleryDataSingle(exhibitionId, imageSrc, imageIndex)
removeImageFromGalleryDataSingle(gd, exhibitionId, imageSrc, imageIndex) ==
  LET r == RemoveImageSingle(gd.exhibitions, exhibitionId, imageSrc, imageIndex)
  IN [ok |-> r.ok, data |-> [gd EXCEPT !.exhibitions = r.arr]]

\* removeImageFromGalleryData(exhibitionId, imageSrc, imageIndex): every
\* matching id in order, stopping at the first throw
RECURSIVE removeImageFromGalleryDataFrom(_, _, _, _, _)
removeImageFromGalleryDataFrom(gd, matchingIds, i, imageSrc, imageIndex) ==
  IF i > Len(matchingIds) THEN [ok |-> TRUE, data |-> gd]
  ELSE LET r == removeImageFromGalleryDataSingle(gd, matchingIds[i], imageSrc, imageIndex)
       IN IF r.ok THEN removeImageFromGalleryDataFrom(r.data, matchingIds, i + 1, imageSrc, imageIndex)
          ELSE [ok |-> FALSE, data |-> gd]

\* removeImageFromGalleryData that removes from the requested exhibition only
removeImageFromGalleryDataRequestedOnly(gd, exhibitionId, imageSrc, imageIndex) ==
  removeImageFromGalleryDataFrom(gd, <<exhibitionId>>, 1, imageSrc, imageIndex)

removeImageFromGalleryData(gd, exhibitionId, imageSrc, imageIndex) ==
  removeImageFromGalleryDataFrom(gd, findMatchingExhibitionIds(gd, exhibitionId), 1, imageSrc, imageIndex)

\* removeImageFromGallerySectionData(sectionId, imageSrc, imageIndex)
removeImageFromGallerySectionData(gd, sectionId, imageSrc, imageIndex) ==
  LET r == RemoveImageSingle(gd.gallerySections, sectionId, imageSrc, imageIndex)
  IN [ok |-> r.ok, data |-> [gd EXCEPT !.gallerySections = r.arr]]

\* ------------------------------------------------------------- responses
Ok(message) == [status |-> 200, success |-> TRUE, message |-> message]
Error(status, message) == [status |-> status, success |-> FALSE, message |-> message]
NoResponse == [status |-> 0, success |-> FALSE, message |-> ""]

\* fs.writeFileSync(statePath, ...) throws
WriteThrows(file) == file = "unwritable"

\* a read block without its try/catch: the error of JSON.parse leaves the
\* update function
ReadThrowsOnCorrupt(file) == file = "corrupt"

\* whether reading state.json throws out of the update function: every
\* read block catches the error of JSON.parse and goes on with {}
ReadThrows(file) == FALSE

\* the state.json update of a handler throws
StateUpdateThrows(file) == WriteThrows(file) \/ ReadThrows(file)

\* DeleteResponse that answers 500 when the state.json update threw
DeleteResponseFailFast(storageOk, stateThrew) ==
  IF ~storageOk \/ stateThrew THEN Error(500, "Failed to update galleryData.json")
  ELSE Ok("Image deleted successfully")

\* the answer of app.delete('/api/delete'): 500 only when galleryData.json
\* could not be updated; an error of the state.json update is caught
DeleteResponse(storageOk, stateThrew) ==
  IF ~storageOk THEN Error(500, "Failed to update galleryData.json")
  ELSE Ok("Image deleted successfully")

\* the route of a request and the collection it addresses
Request(route, exhibitionId) == [route |-> route, exhibitionId |-> exhibitionId]
NoRequest == Request("", "")

\* ----------------------------------------------- POST /api/gallery-order
\* InvalidIndices that lets the index one past the end of the storage through
InvalidIndicesOffByOne(gd, exhibitionId, order) ==
  LET array == CollectionArray(gd, isGallerySection(gd, exhibitionId))
      idx == FindIdIndex(array, exhibitionId)
      maxValidIndex == IF idx = NotFound THEN -1 ELSE Len(array[idx + 1].images) - 1
      Invalid(v) == v < 0 \/ v > maxValidIndex + 1
  IN SelectSeq(order, Invalid)

\* the submitted indices outside [0, maxValidIndex] of the addressed collection
InvalidIndices(gd, exhibitionId, order) ==
  LET array == CollectionArray(gd, isGallerySection(gd, exhibitionId))
      idx == FindIdIndex(array, exhibitionId)
      maxValidIndex == IF idx = NotFound THEN -1 ELSE Len(array[idx + 1].images) - 1
      Invalid(v) == v < 0 \/ v > maxValidIndex
  IN SelectSeq(order, Invalid)

\* OnExplicitReorder that validates the order of a meta id like any other
OnExplicitReorderValidated(gd, go, exhibitionId, order) ==
  IF Len(InvalidIndices(gd, exhibitionId, order)) > 0 THEN go
  ELSE LET ids == Range(findMatchingExhibitionIds(gd, exhibitionId))
       IN SetOrders(go, ids, [k \in ids |-> order])

\* the document the handler writes back: the two meta ids take the order
\* as it is, the others only when no index is invalid, for every matching id
OnExplicitReorder(gd, go, exhibitionId, order) ==
  IF exhibitionId \in MetaIds THEN SetOrders(go, {exhibitionId}, [k \in {exhibitionId} |-> order])
  ELSE IF Len(InvalidIndices(gd, exhibitionId, order)) > 0 THEN go
  ELSE LET ids == Range(findMatchingExhibitionIds(gd, exhibitionId))
       IN SetOrders(go, ids, [k \in ids |-> order])

\* res.json of the handler after the write
GalleryOrderResponse(gd, exhibitionId, order) == Ok("Order saved successfully")

\* ---------------------------------------------------------------- inputs
\* the file of the n-th image: n for an uploaded photo, -n for a generated
\* text-<timestamp>.png
TextImage(n) == 0 - n
IsTextImage(src) == src < 0

InitialGalleryData ==
  [exhibitions |-> <<[id |-> UnderwaterIds[1], images |-> <<1, 2>>],
                     [id |-> UnderwaterIds[2], images |-> <<1, 2>>],
                     [id |-> OtherExhibitionId, images |-> <<3>>]>>,
   gallerySections |-> <<[id |-> "prensa", images |-> <<4>>]>>]

ImagesOf(arr) == UNION {Range(arr[i].images) : i \in 1..Len(arr)}
InitialImages ==
  Cardinality(ImagesOf(InitialGalleryData.exhibitions) \cup ImagesOf(InitialGalleryData.gallerySections))

SectionIdOf == [name \in {"Prensa", "Retratos"} |->
                  IF name = "Prensa" THEN "prensa" ELSE "retratos"]
ImageSrcs == 1..(InitialImages + MaxInsDelUploads + 1)
SeqsUpTo(S, n) == UNION {[1..k -> S] : k \in 0..n}
SubmittedOrders == SeqsUpTo((-1)..MaxIndex, MaxOrderLen)

EngineIdle == [op |-> "idle", order |-> <<>>, n |-> 0, d |-> 0, out |-> <<>>]

\* -------------------------------------------------- event-loop callbacks
\* JSON.parse of state.json: the order arrays, text_images and favorites
\* are keys of one object
NoDocument == [orders |-> <<>>, text_images |-> <<>>, favorites |-> <<>>]

\* a route handler in flight: where it stands, its req.body, the index
\* it found and the document it parsed from state.json
NoCallback ==
  [pc |-> "idle", route |-> "", exhibitionId |-> "", order |-> <<>>, imageSrc |-> 0,
   deletedIndex |-> NotFound, document |-> NoDocument]

LoopIdle == [running |-> 0, received |-> 0, callbacks |-> [s \in 1..MaxInFlight |-> NoCallback]]

\* a handler with an await between its read and its write of state.json
YieldsBeforeWriteInToggle(route) == route = "favorites-toggle"

\* a delete handler with an await between its read and its write of state.json
YieldsBeforeWriteInDelete(route) == route = "delete"

\* whether the handler of the route returns to the event loop between
\* fs.readFileSync and fs.writeFileSync of state.json: none has an await,
\* a timer or a promise there
YieldsBeforeWrite(route) == FALSE

\* state.favorites after the toggle of imageSrc
ToggleFavorite(favs, imageSrc) ==
  IF IndexOf(favs, imageSrc) = NotFound THEN Append(favs, imageSrc)
  ELSE Splice(favs, IndexOf(favs, imageSrc))

\* ------------------------------------------------------ work galleries
\* src/server/index.js: the images of the work of portfolioData.json that
\* the requests name, each image standing for its url
ExistingWorkId == 1
UnknownWorkId == 2
NoPortfolio == [images |-> <<>>, before |-> <<>>, imageUrl |-> 0, direction |-> "", status |-> 0]

\* [a[i], a[j]] = [a[j], a[i]], i and j counted from 0
SwapAt(images, i, j) == [images EXCEPT ![i + 1] = images[j + 1], ![j + 1] = images[i + 1]]

\* the reorder that swaps with the neighbour also at the first and the
\* last position instead of wrapping around
reorderWorkImagesNoWrap(images, imageIndex, direction) ==
  IF direction = "left"
  THEN IF imageIndex = 0 THEN images ELSE SwapAt(images, imageIndex - 1, imageIndex)
  ELSE IF imageIndex = Len(images) - 1 THEN images ELSE SwapAt(images, imageIndex, imageIndex + 1)

\* the reorder that moves the first image one place only on 'left'
reorderWorkImagesFirstSwaps(images, imageIndex, direction) ==
  IF direction = "left"
  THEN IF imageIndex = 0 THEN SwapAt(images, 0, 1) ELSE SwapAt(images, imageIndex - 1, imageIndex)
  ELSE IF imageIndex = Len(images) - 1
       THEN Unshift(Splice(images, imageIndex), images[imageIndex + 1])
       ELSE SwapAt(images, imageIndex, imageIndex + 1)

\* app.put('/api/works/:workId/images/reorder'), the reorder of work.images
\* for the image found at imageIndex
reorderWorkImages(images, imageIndex, direction) ==
  IF direction = "left"
  THEN IF imageIndex = 0 THEN Append(Splice(images, 0), images[1])
       ELSE SwapAt(images, imageIndex - 1, imageIndex)
  ELSE IF imageIndex = Len(images) - 1
       THEN Unshift(Splice(images, imageIndex), images[imageIndex + 1])
       ELSE SwapAt(images, imageIndex, imageIndex + 1)

\* the status the reorder request is answered with
reorderWorkImagesStatus(images, workId, imageUrl, direction) ==
  IF imageUrl = 0 THEN 400
  ELSE IF direction \notin {"left", "right"} THEN 400
  ELSE IF workId # ExistingWorkId THEN 404
  ELSE IF Len(images) < 2 THEN 400
  ELSE IF IndexOf(images, imageUrl) = NotFound THEN 404
  ELSE 200

\* --------------------------------------------------------------- handlers
\* app.post('/api/upload')
PostUpload(exhibitionId, isPoster) ==
  /\ LET isGallery == isGallerySection(galleryData, exhibitionId)
         newImage == clock + 1
         currentImageCount == getImageCount(galleryData, exhibitionId, isGallery)
         r == IF isGallery THEN updateGallerySectionData(galleryData, exhibitionId, newImage)
              ELSE updateGalleryData(galleryData, exhibitionId, newImage)
     IN IF isPoster
        THEN /\ log' = {}
             /\ UNCHANGED <<galleryData, stateFile, galleryOrders, clock>>
        ELSE /\ clock' = clock + 1
             /\ galleryData' = r.data
             /\ IF r.ok /\ ~StateUpdateThrows(stateFile)
                THEN /\ galleryOrders' = updateStateWithNewImage(r.data, galleryOrders, exhibitionId, currentImageCount)
                     /\ stateFile' = "ok"
                     /\ log' = {IF Len(OrderOf(galleryOrders, id)) > 0
                                THEN "Updated existing order" ELSE "Created new order" :
                                id \in Range(findMatchingExhibitionIds(r.data, exhibitionId))}
                ELSE /\ log' = IF r.ok THEN {"Error updating state.json"}
                               ELSE {"Error updating galleryData.json"}
                     /\ UNCHANGED <<stateFile, galleryOrders>>
  /\ request' = Request(IF isPoster THEN "upload-poster" ELSE "upload", exhibitionId)
  /\ response' = Ok("image")
  /\ UNCHANGED <<engine, textImages, favorites, eventLoop, portfolio>>

\* app.post('/api/create-text-image'); isGallery is taken from the request
PostCreateTextImage(exhibitionId, isGallery) ==
  /\ LET newImage == TextImage(clock + 1)
         currentImageCount == getImageCount(galleryData, exhibitionId, isGallery)
         r == IF isGallery THEN updateGallerySectionData(galleryData, exhibitionId, newImage)
              ELSE updateGalleryData(galleryData, exhibitionId, newImage)
     IN /\ clock' = clock + 1
        /\ galleryData' = r.data
        /\ IF r.ok /\ ~StateUpdateThrows(stateFile)
           THEN /\ galleryOrders' = updateStateWithNewImage(r.data, galleryOrders, exhibitionId, currentImageCount)
                /\ textImages' = updateTextImageMarker(r.data, textImages, exhibitionId, currentImageCount)
                /\ stateFile' = "ok"
                /\ log' = {"Marked text image"}
                /\ response' = Ok("image")
           ELSE /\ log' = IF r.ok THEN {"Error updating state.json"} ELSE {"CreateTextImage error"}
                /\ response' = IF r.ok THEN Ok("image") ELSE Error(500, "not found in galleryData.json")
                /\ UNCHANGED <<stateFile, galleryOrders, textImages>>
  /\ request' = Request("create-text-image", exhibitionId)
  /\ UNCHANGED <<engine, favorites, eventLoop, portfolio>>

\* app.delete('/api/delete')
DeleteImage(exhibitionId, imageSrc) ==
  /\ LET isGallery == isGallerySection(galleryData, exhibitionId)
         deletedIndex == findImageIndex(galleryData, exhibitionId, imageSrc, isGallery)
         r == IF isGallery THEN removeImageFromGallerySectionData(galleryData, exhibitionId, imageSrc, deletedIndex)
              ELSE removeImageFromGalleryData(galleryData, exhibitionId, imageSrc, deletedIndex)
         u == updateStateAfterDelete(r.data, galleryOrders, exhibitionId, deletedIndex)
         stateThrew == /\ r.ok /\ deletedIndex # NotFound
                       /\ ReadThrows(stateFile) \/ (u.updated /\ WriteThrows(stateFile))
     IN /\ galleryData' = r.data
        /\ response' = DeleteResponse(r.ok, stateThrew)
        /\ IF ~r.ok
           THEN /\ log' = {"Error removing from galleryData.json"}
                /\ UNCHANGED <<stateFile, galleryOrders>>
           ELSE IF deletedIndex = NotFound
                THEN /\ log' = {"Image index not found"}
                     /\ UNCHANGED <<stateFile, galleryOrders>>
                ELSE IF stateThrew
                     THEN /\ log' = {"Error updating state.json"}
                          /\ UNCHANGED <<stateFile, galleryOrders>>
                     ELSE /\ log' = {IF Len(OrderOf(galleryOrders, id)) = 0 THEN "No existing order"
                                     ELSE IF IndexOf(galleryOrders[id], deletedIndex) = NotFound
                                          THEN "Index not found in order" ELSE "Removed index" :
                                     id \in Range(findMatchingExhibitionIds(r.data, exhibitionId))}
                          /\ IF u.updated
                             THEN galleryOrders' = u.orders /\ stateFile' = "ok"
                             ELSE UNCHANGED <<stateFile, galleryOrders>>
  /\ request' = Request("delete", exhibitionId)
  /\ UNCHANGED <<clock, engine, textImages, favorites, eventLoop, portfolio>>

\* app.post('/api/gallery-order'); a throwing write ends in the catch, 500
PostGalleryOrder(exhibitionId, order) ==
  /\ IF StateUpdateThrows(stateFile)
     THEN /\ log' = {"Error saving gallery order"}
          /\ response' = Error(500, "EACCES")
          /\ UNCHANGED <<stateFile, galleryOrders>>
     ELSE /\ galleryOrders' = OnExplicitReorder(galleryData, galleryOrders, exhibitionId, order)
          /\ stateFile' = "ok"
          /\ log' = IF exhibitionId \in MetaIds THEN {}
                    ELSE IF Len(InvalidIndices(galleryData, exhibitionId, order)) > 0
                         THEN {"Rejecting stale order"} ELSE {"Valid order"}
          /\ response' = GalleryOrderResponse(galleryData, exhibitionId, order)
  /\ request' = Request("gallery-order", exhibitionId)
  /\ UNCHANGED <<galleryData, clock, engine, textImages, favorites, eventLoop, portfolio>>

\* app.post('/api/create-gallery-section')
CreateGallerySection(name) ==
  /\ Len(galleryData.gallerySections) < MaxSections
  /\ galleryData' = [galleryData EXCEPT !.gallerySections =
                       Unshift(@, [id |-> SectionIdOf[name], images |-> <<>>])]
  /\ request' = Request("create-gallery-section", SectionIdOf[name])
  /\ response' = Ok("section")
  /\ log' = {"Added gallery section"}
  /\ UNCHANGED <<stateFile, galleryOrders, clock, engine, textImages, favorites, eventLoop, portfolio>>

\* app.delete('/api/delete-gallery-section')
DeleteGallerySection(sectionId) ==
  /\ LET sectionIndex == FindIdIndex(galleryData.gallerySections, sectionId)
     IN IF sectionIndex = NotFound
        THEN /\ response' = Error(404, "Gallery section not found in galleryData.json")
             /\ log' = {}
             /\ UNCHANGED <<galleryData, stateFile, galleryOrders>>
        ELSE /\ galleryData' = [galleryData EXCEPT !.gallerySections = Splice(@, sectionIndex)]
             /\ response' = Ok("Gallery section deleted successfully")
             /\ IF stateFile = "ok" /\ "gallery-sections" \in DOMAIN galleryOrders
                THEN /\ galleryOrders' = [galleryOrders EXCEPT !["gallery-sections"] =
                                            OnDeleteSection(@, sectionIndex, Len(galleryData.gallerySections) - 1)]
                     /\ log' = {"Removed gallery section", "Updated gallery-sections order"}
                ELSE /\ log' = IF \/ stateFile = "corrupt"
                                  \/ WriteThrows(stateFile) /\ "gallery-sections" \in DOMAIN galleryOrders
                               THEN {"Removed gallery section", "Error updating state.json"}
                               ELSE {"Removed gallery section"}
                     /\ UNCHANGED galleryOrders
             /\ UNCHANGED stateFile
  /\ request' = Request("delete-gallery-section", sectionId)
  /\ UNCHANGED <<clock, engine, textImages, favorites, eventLoop, portfolio>>

\* ---------------------------------------------------------- specification

Init ==
  /\ galleryData = InitialGalleryData
  /\ stateFile = "missing"
  /\ galleryOrders = <<>>
  /\ request = NoRequest
  /\ response = NoResponse
  /\ log = {}
  /\ clock = InitialImages
  /\ engine = EngineIdle
  /\ textImages = <<>>
  /\ favorites = <<>>
  /\ eventLoop = LoopIdle
  /\ portfolio = NoPortfolio

\* requests for the images of the underwater-* exhibitions
Next ==
  \/ /\ clock < InitialImages + MaxUploads
     /\ \E id \in Range(UnderwaterIds), isPoster \in BOOLEAN : PostUpload(id, isPoster)
  \/ \E id \in Range(UnderwaterIds), src \in ImageSrcs : DeleteImage(id, src)
  \/ \E id \in Range(UnderwaterIds), order \in SubmittedOrders : PostGalleryOrder(id, order)

Spec == Init /\ [][Next]_vars

\* requests for the gallery sections and their 'gallery-sections' order
NextSections ==
  \/ \E name \in DOMAIN SectionIdOf : CreateGallerySection(name)
  \/ \E id \in SectionNames : DeleteGallerySection(id)
  \/ \E order \in SubmittedOrders : PostGalleryOrder("gallery-sections", order)

SpecSections == Init /\ [][NextSections]_vars

\* uploads and deletes only, started from any state.json whose orders are
\* absent or duplicate-free sequences of positions of the storage arrays
IsDuplicateFree(o) == \A i, j \in 1..Len(o) : i # j => o[i] # o[j]
ValidOrders(n) == {o \in SeqsUpTo(0..(n - 1), n) : IsDuplicateFree(o)}
InitialDocs ==
  {SetOrders(SetOrders(<<>>, uIds, [k \in uIds |-> u]), pIds, [k \in pIds |-> p]) :
     u \in ValidOrders(Len(InitialGalleryData.exhibitions[1].images)),
     p \in ValidOrders(Len(InitialGalleryData.gallerySections[1].images)),
     uIds \in {{}, Range(UnderwaterIds)},
     pIds \in {{}, {"prensa"}}}

InitInsDel ==
  /\ galleryData = InitialGalleryData
  /\ galleryOrders \in InitialDocs
  /\ stateFile = IF DOMAIN galleryOrders = {} THEN "missing" ELSE "ok"
  /\ request = NoRequest
  /\ response = NoResponse
  /\ log = {}
  /\ clock = InitialImages
  /\ engine = EngineIdle
  /\ textImages = <<>>
  /\ favorites = <<>>
  /\ eventLoop = LoopIdle
  /\ portfolio = NoPortfolio

NextInsDel ==
  \/ /\ clock < InitialImages + MaxInsDelUploads
     /\ \E id \in Range(UnderwaterIds) \cup {"prensa"}, isPoster \in BOOLEAN : PostUpload(id, isPoster)
  \/ \E id \in Range(UnderwaterIds) \cup {"prensa"}, src \in ImageSrcs : DeleteImage(id, src)

SpecInsDel == InitInsDel /\ [][NextInsDel]_vars

\* the order adjustments applied to every bounded order, storage length and position
EngineAppend ==
  /\ engine.op = "idle"
  /\ engine' = [engine EXCEPT !.op = "append", !.out = OnAppendAtFront(engine.order, engine.n)]
  /\ UNCHANGED <<galleryData, stateFile, galleryOrders, request, response, log, clock, textImages, favorites, eventLoop, portfolio>>

EngineDelete ==
  /\ engine.op = "idle"
  /\ engine' = [engine EXCEPT !.op = "delete", !.out = OnDelete(engine.order, engine.d)]
  /\ UNCHANGED <<galleryData, stateFile, galleryOrders, request, response, log, clock, textImages, favorites, eventLoop, portfolio>>

EngineDeleteFront ==
  /\ engine.op = "append"
  /\ engine' = [engine EXCEPT !.op = "append-delete", !.out = OnDelete(engine.out, 0)]
  /\ UNCHANGED <<galleryData, stateFile, galleryOrders, request, response, log, clock, textImages, favorites, eventLoop, portfolio>>

InitEngine ==
  /\ galleryData = InitialGalleryData
  /\ stateFile = "missing"
  /\ galleryOrders = <<>>
  /\ request = NoRequest
  /\ response = NoResponse
  /\ log = {}
  /\ clock = InitialImages
  /\ engine \in {[op |-> "idle", order |-> o, n |-> n, d |-> d, out |-> <<>>] :
                   o \in SeqsUpTo(0..MaxEngineVal, MaxEngineLen),
                   n \in 0..MaxEngineLen,
                   d \in 0..MaxEngineVal}
  /\ textImages = <<>>
  /\ favorites = <<>>
  /\ eventLoop = LoopIdle
  /\ portfolio = NoPortfolio

NextEngine == EngineAppend \/ EngineDelete \/ EngineDeleteFront

SpecEngine == InitEngine /\ [][NextEngine]_vars

\* the gallery sections and their images: sections created and deleted,
\* photos uploaded into them and text images generated for them
NextSectionContent ==
  \/ \E name \in DOMAIN SectionIdOf : CreateGallerySection(name)
  \/ \E id \in SectionNames : DeleteGallerySection(id)
  \/ /\ clock < InitialImages + MaxSectionUploads
     /\ \E id \in SectionNames : PostUpload(id, FALSE)
  \/ /\ clock < InitialImages + MaxSectionUploads
     /\ \E id \in SectionNames : PostCreateTextImage(id, TRUE)

SpecSectionContent == Init /\ [][NextSectionContent]_vars

\* photos and text images of one exhibition and one gallery section:
\* uploaded, generated and deleted
TextCollectionIds == {UnderwaterIds[1], "prensa"}
TextImageSrcs == (1..(InitialImages + MaxTextUploads)) \cup {TextImage(n) : n \in 1..(InitialImages + MaxTextUploads)}

NextText ==
  \/ /\ clock < InitialImages + MaxTextUploads
     /\ \E id \in TextCollectionIds : PostUpload(id, FALSE)
  \/ /\ clock < InitialImages + MaxTextUploads
     /\ \E id \in TextCollectionIds, isGallery \in BOOLEAN : PostCreateTextImage(id, isGallery)
  \/ \E id \in TextCollectionIds, src \in TextImageSrcs : DeleteImage(id, src)

SpecText == Init /\ [][NextText]_vars

\* reorders of the two reserved meta ids over a state.json that already
\* holds orders of an exhibition, its alias and a gallery section
MetaOrders == SeqsUpTo((-1)..1, MaxMetaOrderLen)

InitMeta ==
  /\ galleryData = InitialGalleryData
  /\ stateFile = "ok"
  /\ galleryOrders = SetOrders(SetOrders(<<>>, Range(UnderwaterIds),
                                         [k \in Range(UnderwaterIds) |-> <<1, 0>>]),
                               {"prensa"}, [k \in {"prensa"} |-> <<0>>])
  /\ request = NoRequest
  /\ response = NoResponse
  /\ log = {}
  /\ clock = InitialImages
  /\ engine = EngineIdle
  /\ textImages = <<>>
  /\ favorites = <<>>
  /\ eventLoop = LoopIdle
  /\ portfolio = NoPortfolio

NextMeta == \E id \in MetaIds, order \in MetaOrders : PostGalleryOrder(id, order)

SpecMeta == InitMeta /\ [][NextMeta]_vars

\* reorders of every kind of collection id, over galleryData.json files
\* that hold both, one or none of the underwater-* exhibitions
ResolverIds ==
  Range(UnderwaterIds) \cup {UnknownUnderwaterId, UnprefixedUnderwaterId, OtherExhibitionId, "prensa"}
ResolverOrders == SeqsUpTo(0..1, MaxResolverOrderLen)
ExhibitionLists ==
  {InitialGalleryData.exhibitions,
   SubSeq(InitialGalleryData.exhibitions, 2, 3),
   SubSeq(InitialGalleryData.exhibitions, 3, 3)}

InitResolver ==
  /\ galleryData \in {[InitialGalleryData EXCEPT !.exhibitions = e] : e \in ExhibitionLists}
  /\ stateFile = "missing"
  /\ galleryOrders = <<>>
  /\ request = NoRequest
  /\ response = NoResponse
  /\ log = {}
  /\ clock = InitialImages
  /\ engine = EngineIdle
  /\ textImages = <<>>
  /\ favorites = <<>>
  /\ eventLoop = LoopIdle
  /\ portfolio = NoPortfolio

NextResolver == \E id \in ResolverIds, order \in ResolverOrders : PostGalleryOrder(id, order)

SpecResolver == InitResolver /\ [][NextResolver]_vars

\* uploads, image deletes and section deletes over a state.json that holds
\* orders and that may reject every write
FailureIds == Range(UnderwaterIds) \cup {"prensa"}
FailureImageSrcs == 1..(InitialImages + MaxFailureUploads)

InitFailure ==
  /\ galleryData = InitialGalleryData
  /\ stateFile \in {"ok", "unwritable"}
  /\ galleryOrders = SetOrders(SetOrders(<<>>, Range(UnderwaterIds),
                                         [k \in Range(UnderwaterIds) |-> <<1, 0>>]),
                               {"prensa", "gallery-sections"},
                               [k \in {"prensa", "gallery-sections"} |-> <<0>>])
  /\ request = NoRequest
  /\ response = NoResponse
  /\ log = {}
  /\ clock = InitialImages
  /\ engine = EngineIdle
  /\ textImages = <<>>
  /\ favorites = <<>>
  /\ eventLoop = LoopIdle
  /\ portfolio = NoPortfolio

NextFailure ==
  \/ /\ clock < InitialImages + MaxFailureUploads
     /\ \E id \in FailureIds : PostUpload(id, FALSE)
  \/ \E id \in FailureIds, src \in FailureImageSrcs : DeleteImage(id, src)
  \/ \E id \in SectionNames : DeleteGallerySection(id)

SpecFailure == InitFailure /\ [][NextFailure]_vars

\* uploads and deletes addressed to an underwater-* exhibition or to an
\* 'underwater-' id that galleryData.json does not hold, state.json writable
UnknownAliasIds == {UnderwaterIds[1], UnknownUnderwaterId}
UnknownAliasImageSrcs == 1..(InitialImages + MaxUnknownUploads)

NextUnknownAlias ==
  \/ /\ clock < InitialImages + MaxUnknownUploads
     /\ \E id \in UnknownAliasIds : PostUpload(id, FALSE)
  \/ \E id \in UnknownAliasIds, src \in UnknownAliasImageSrcs : DeleteImage(id, src)

SpecUnknownAlias == InitInsDel /\ [][NextUnknownAlias]_vars

\* state.json gets text that JSON.parse rejects (a torn or hand-edited
\* file): what the handlers' read blocks make of it is {}
CorruptStateJson ==
  /\ stateFile = "ok"
  /\ stateFile' = "corrupt"
  /\ galleryOrders' = <<>>
  /\ textImages' = <<>>
  /\ favorites' = <<>>
  /\ UNCHANGED <<galleryData, request, response, log, clock, engine, eventLoop, portfolio>>

CorruptIds == {UnderwaterIds[1], "prensa"}
CorruptImageSrcs == 1..(InitialImages + MaxCorruptUploads)
CorruptOrders == SeqsUpTo(0..1, MaxCorruptOrderLen)

InitCorrupt ==
  /\ galleryData = InitialGalleryData
  /\ stateFile = "corrupt"
  /\ galleryOrders = <<>>
  /\ request = NoRequest
  /\ response = NoResponse
  /\ log = {}
  /\ clock = InitialImages
  /\ engine = EngineIdle
  /\ textImages = <<>>
  /\ favorites = <<>>
  /\ eventLoop = LoopIdle
  /\ portfolio = NoPortfolio

NextCorrupt ==
  \/ /\ clock < InitialImages + MaxCorruptUploads
     /\ \E id \in CorruptIds : PostUpload(id, FALSE)
  \/ \E id \in CorruptIds, src \in CorruptImageSrcs : DeleteImage(id, src)
  \/ \E id \in CorruptIds, order \in CorruptOrders : PostGalleryOrder(id, order)
  \/ \E id \in SectionNames : DeleteGallerySection(id)
  \/ CorruptStateJson

SpecCorrupt == InitCorrupt /\ [][NextCorrupt]_vars

\* uploads, deletes and reorders over a state.json that holds an order for
\* every collection, both meta orders, text_images and favorites
FrameIds == {UnderwaterIds[1], "prensa"}
FrameImageSrcs == 1..(InitialImages + MaxFrameUploads)
FrameOrders == SeqsUpTo(0..1, MaxFrameOrderLen)

InitFrame ==
  /\ galleryData = InitialGalleryData
  /\ stateFile = "ok"
  /\ galleryOrders =
       SetOrders(SetOrders(SetOrders(<<>>, Range(UnderwaterIds), [k \in Range(UnderwaterIds) |-> <<1, 0>>]),
                           {OtherExhibitionId, "prensa", "gallery-sections"},
                           [k \in {OtherExhibitionId, "prensa", "gallery-sections"} |-> <<0>>]),
                 {"exhibitions"}, [k \in {"exhibitions"} |-> <<2, 0, 1>>])
  /\ request = NoRequest
  /\ response = NoResponse
  /\ log = {}
  /\ clock = InitialImages
  /\ engine = EngineIdle
  /\ textImages = SetOrders(<<>>, {UnderwaterIds[2], OtherExhibitionId, "prensa"},
                            [k \in {UnderwaterIds[2], OtherExhibitionId, "prensa"} |-> <<0>>])
  /\ favorites = <<InitialGalleryData.exhibitions[3].images[1]>>
  /\ eventLoop = LoopIdle
  /\ portfolio = NoPortfolio

NextFrame ==
  \/ /\ clock < InitialImages + MaxFrameUploads
     /\ \E id \in FrameIds : PostUpload(id, FALSE)
  \/ \E id \in FrameIds, src \in FrameImageSrcs : DeleteImage(id, src)
  \/ \E id \in FrameIds, order \in FrameOrders : PostGalleryOrder(id, order)

SpecFrame == InitFrame /\ [][NextFrame]_vars

\* app.put('/api/works/:workId/images/reorder'); imageUrl 0 stands for a
\* request without imageUrl
PutWorkImagesReorder(workId, imageUrl, direction) ==
  LET images == portfolio.images
      status == reorderWorkImagesStatus(images, workId, imageUrl, direction)
  IN /\ portfolio' = [images |-> IF status = 200
                                  THEN reorderWorkImages(images, IndexOf(images, imageUrl), direction)
                                  ELSE images,
                       before |-> images, imageUrl |-> imageUrl, direction |-> direction,
                       status |-> status]
     /\ response' = IF status = 200 THEN Ok("images") ELSE Error(status, "reorder")
     /\ request' = Request("works-reorder", "")
     /\ log' = IF status = 200 THEN {} ELSE {"Reorder refused"}
     /\ UNCHANGED <<galleryData, stateFile, galleryOrders, clock, engine, textImages, favorites,
                    eventLoop>>

WorkUrls == 1..MaxWorkUrl
WorkDirections == {"left", "right", "up"}

InitWorks ==
  /\ galleryData = InitialGalleryData
  /\ stateFile = "missing"
  /\ galleryOrders = <<>>
  /\ request = NoRequest
  /\ response = NoResponse
  /\ log = {}
  /\ clock = InitialImages
  /\ engine = EngineIdle
  /\ textImages = <<>>
  /\ favorites = <<>>
  /\ eventLoop = LoopIdle
  /\ \E images \in SeqsUpTo(WorkUrls, MaxWorkImages) : portfolio = [NoPortfolio EXCEPT !.images = images]

NextWorks ==
  \E workId \in {ExistingWorkId, UnknownWorkId}, imageUrl \in {0} \cup WorkUrls,
     direction \in WorkDirections :
    PutWorkImagesReorder(workId, imageUrl, direction)

SpecWorks == InitWorks /\ [][NextWorks]_vars

\* ------------------------------------------------ handlers as callbacks
\* The handlers of /api/gallery-order, /api/delete and
\* /api/favorites/toggle, each cut at its fs.readFileSync of state.json:
\* the event loop runs one callback at a time and takes the next one only
\* when the running one returns or awaits.
StateDocument == [orders |-> galleryOrders, text_images |-> textImages, favorites |-> favorites]

LoopOrders == {<<0, 1>>, <<1, 0>>, <<0>>}
LoopImageSrcs == 1..InitialImages
LoopRequests ==
  {[route |-> "gallery-order", exhibitionId |-> UnderwaterIds[1], order |-> o, imageSrc |-> 0] :
     o \in LoopOrders}
  \cup {[route |-> "delete", exhibitionId |-> UnderwaterIds[1], order |-> <<>>, imageSrc |-> i] :
          i \in LoopImageSrcs}
  \cup {[route |-> "favorites-toggle", exhibitionId |-> "", order |-> <<>>, imageSrc |-> i] :
          i \in LoopImageSrcs}

\* the http server hands a parsed request to its route handler
Receive(s, req) ==
  /\ eventLoop.received < MaxLoopRequests
  /\ eventLoop.callbacks[s].pc = "idle"
  /\ eventLoop' = [eventLoop EXCEPT
                     !.received = @ + 1,
                     !.callbacks[s] = [NoCallback EXCEPT !.pc = "queued", !.route = req.route,
                                         !.exhibitionId = req.exhibitionId, !.order = req.order,
                                         !.imageSrc = req.imageSrc]]
  /\ UNCHANGED <<galleryData, stateFile, galleryOrders, request, response, log, clock, engine,
                 textImages, favorites, portfolio>>

\* the handler from its start through its read of state.json; the delete
\* handler removes the image from galleryData.json first and answers
\* without reading state.json when that throws or the index is unknown
BeginHandler(s) ==
  LET cb == eventLoop.callbacks[s]
      isGallery == isGallerySection(galleryData, cb.exhibitionId)
      deletedIndex == findImageIndex(galleryData, cb.exhibitionId, cb.imageSrc, isGallery)
      r == IF isGallery
           THEN removeImageFromGallerySectionData(galleryData, cb.exhibitionId, cb.imageSrc, deletedIndex)
           ELSE removeImageFromGalleryData(galleryData, cb.exhibitionId, cb.imageSrc, deletedIndex)
      reads == cb.route = "delete" => (r.ok /\ deletedIndex # NotFound)
  IN /\ eventLoop.running = 0
     /\ cb.pc = "queued"
     /\ request' = Request(cb.route, cb.exhibitionId)
     /\ galleryData' = IF cb.route = "delete" THEN r.data ELSE galleryData
     /\ IF reads
        THEN /\ eventLoop' = [eventLoop EXCEPT
                                !.running = IF YieldsBeforeWrite(cb.route) THEN 0 ELSE s,
                                !.callbacks[s] = [cb EXCEPT !.pc = "read",
                                                    !.deletedIndex = deletedIndex,
                                                    !.document = StateDocument]]
             /\ UNCHANGED <<response, log>>
        ELSE /\ eventLoop' = [eventLoop EXCEPT !.callbacks[s] = NoCallback]
             /\ response' = DeleteResponse(r.ok, FALSE)
             /\ log' = IF r.ok THEN {"Image index not found"}
                       ELSE {"Error removing from galleryData.json"}
     /\ UNCHANGED <<stateFile, galleryOrders, clock, engine, textImages, favorites, portfolio>>

\* the document the handler computes from the one it parsed
NewDocument(gd, cb) ==
  IF cb.route = "gallery-order"
  THEN [cb.document EXCEPT !.orders = OnExplicitReorder(gd, @, cb.exhibitionId, cb.order)]
  ELSE IF cb.route = "delete"
  THEN [cb.document EXCEPT
          !.orders = updateStateAfterDelete(gd, @, cb.exhibitionId, cb.deletedIndex).orders]
  ELSE [cb.document EXCEPT !.favorites = ToggleFavorite(@, cb.imageSrc)]

\* the handler from its read of state.json through fs.writeFileSync and
\* the response; updateStateAfterDelete writes only when it changed an order
FinishHandler(s) ==
  LET cb == eventLoop.callbacks[s]
      new == NewDocument(galleryData, cb)
      writes == cb.route = "delete" =>
                  updateStateAfterDelete(galleryData, cb.document.orders, cb.exhibitionId,
                                         cb.deletedIndex).updated
  IN /\ cb.pc = "read"
     /\ \/ eventLoop.running = s
        \/ eventLoop.running = 0 /\ YieldsBeforeWrite(cb.route)
     /\ IF writes
        THEN /\ galleryOrders' = new.orders
             /\ textImages' = new.text_images
             /\ favorites' = new.favorites
        ELSE UNCHANGED <<galleryOrders, textImages, favorites>>
     /\ response' = IF cb.route = "gallery-order"
                    THEN GalleryOrderResponse(galleryData, cb.exhibitionId, cb.order)
                    ELSE IF cb.route = "delete" THEN DeleteResponse(TRUE, FALSE)
                    ELSE Ok("favorites")
     /\ log' = {}
     /\ eventLoop' = [eventLoop EXCEPT !.running = 0, !.callbacks[s] = NoCallback]
     /\ UNCHANGED <<galleryData, stateFile, request, clock, engine, portfolio>>

InitLoop ==
  /\ galleryData = InitialGalleryData
  /\ stateFile = "ok"
  /\ galleryOrders = SetOrders(<<>>, Range(UnderwaterIds), [k \in Range(UnderwaterIds) |-> <<1, 0>>])
  /\ request = NoRequest
  /\ response = NoResponse
  /\ log = {}
  /\ clock = InitialImages
  /\ engine = EngineIdle
  /\ textImages = <<>>
  /\ favorites = <<>>
  /\ eventLoop = LoopIdle
  /\ portfolio = NoPortfolio

NextLoop ==
  \/ \E s \in 1..MaxInFlight, req \in LoopRequests : Receive(s, req)
  \/ \E s \in 1..MaxInFlight : BeginHandler(s)
  \/ \E s \in 1..MaxInFlight : FinishHandler(s)

SpecLoop == InitLoop /\ [][NextLoop]_vars

\* ------------------------------------------------------------ properties
\* the collections of galleryData.json and the storage array of one of them
CollectionIds ==
  {galleryData.exhibitions[i].id : i \in 1..Len(galleryData.exhibitions)}
    \cup {galleryData.gallerySections[i].id : i \in 1..Len(galleryData.gallerySections)}
StorageIn(gd, id) ==
  LET array == CollectionArray(gd, isGallerySection(gd, id))
  IN array[FindIdIndex(array, id) + 1].images
InRange(order, n) == \A i \in 1..Len(order) : order[i] >= 0 /\ order[i] < n

\* C1: started from absent or duplicate-free in-range orders, after any
\* sequence of image uploads and image deletes every value of a collection's
\* persisted order lies in [0, current storage length) and none occurs twice.
C1_PermutationValidity ==
  \A id \in CollectionIds :
    id \in DOMAIN galleryOrders =>
      /\ InRange(galleryOrders[id], Len(StorageIn(galleryData, id)))
      /\ IsDuplicateFree(galleryOrders[id])

\* an upload has happened and a delete has just removed an index from an
\* order that still has two entries
C1_Witness ==
  /\ request = Request("delete", UnderwaterIds[1])
  /\ response.status = 200
  /\ log = {"Removed index"}
  /\ clock > InitialImages
  /\ Len(OrderOf(galleryOrders, UnderwaterIds[1])) >= 2

\* C2: after any upload, delete or explicit reorder requested through an
\* underwater-* exhibition, all underwater-* exhibitions have the same
\* persisted order (or all have none).
C2_AliasConsistency ==
  request.exhibitionId \in Range(UnderwaterIds) =>
    \A a, b \in Range(UnderwaterIds) :
      /\ (a \in DOMAIN galleryOrders) <=> (b \in DOMAIN galleryOrders)
      /\ OrderOf(galleryOrders, a) = OrderOf(galleryOrders, b)

\* a delete requested through the first alias has adjusted a persisted
\* order, which the second alias holds too
C2_Witness ==
  /\ request = Request("delete", UnderwaterIds[1])
  /\ log = {"Removed index"}
  /\ Len(OrderOf(galleryOrders, UnderwaterIds[2])) >= 1

\* the submitted order holds a value below 0 or above storage length - 1
Stale(id, order) ==
  \E i \in 1..Len(order) :
    order[i] < 0 \/ order[i] > Len(StorageIn(galleryData, id)) - 1

\* the persisted order of id is the same before and after the step
OrderRetained(id) ==
  /\ (id \in DOMAIN galleryOrders') <=> (id \in DOMAIN galleryOrders)
  /\ OrderOf(galleryOrders', id) = OrderOf(galleryOrders, id)

\* C3: a reorder request for an underwater-* exhibition whose submitted
\* order holds a value below 0 or above (storage length - 1) is rejected,
\* and the persisted order of the requested id and of every aliased id is
\* after the request exactly what it was before it: in every reachable
\* state the document the handler writes for such an order keeps the orders
\* of both aliases and the handler takes the rejecting branch, and a step of
\* the handler that takes the rejecting branch changes no order.
C3_StaleReorderRejected ==
  /\ [](\A id \in Range(UnderwaterIds), order \in SubmittedOrders :
          Stale(id, order) =>
            LET written == OnExplicitReorder(galleryData, galleryOrders, id, order)
            IN /\ Len(InvalidIndices(galleryData, id, order)) > 0
               /\ \A a \in Range(UnderwaterIds) :
                    /\ (a \in DOMAIN written) <=> (a \in DOMAIN galleryOrders)
                    /\ OrderOf(written, a) = OrderOf(galleryOrders, a))
  /\ [][(request'.route = "gallery-order" /\ log' = {"Rejecting stale order"})
          => \A a \in Range(UnderwaterIds) : OrderRetained(a)]_vars

\* a stale reorder has just been rejected while both aliases hold the
\* two-entry order an earlier reorder saved
C3_Witness ==
  /\ request = Request("gallery-order", UnderwaterIds[2])
  /\ log = {"Rejecting stale order"}
  /\ OrderOf(galleryOrders, UnderwaterIds[1]) = <<1, 0>>
  /\ OrderOf(galleryOrders, UnderwaterIds[2]) = <<1, 0>>

\* C4: the response to a reorder rejected as stale differs from the
\* response to every accepted reorder of the same collection, so that the
\* caller learns of the rejection.
C4_RejectionReported ==
  (request.route = "gallery-order" /\ log = {"Rejecting stale order"}) =>
    \A order \in SubmittedOrders :
      ~Stale(request.exhibitionId, order) =>
        response # GalleryOrderResponse(galleryData, request.exhibitionId, order)

\* C5: for every order O of positions, appending at the front and then
\* deleting position 0 gives O back; for an empty O over a storage of
\* length n it gives the storage order 0..n-1.
C5_InsertThenDeleteIdentity ==
  engine.op = "append-delete" =>
    engine.out = IF Len(engine.order) > 0 THEN engine.order
                 ELSE [i \in 1..engine.n |-> i - 1]

\* the round trip has been applied to an order that holds position 0
C5_Witness ==
  /\ engine.op = "append-delete"
  /\ engine.order = <<2, 0, 1>>
  /\ engine.out = <<2, 0, 1>>

\* C6: an image upload turns a non-empty persisted order into the old
\* order with every value + 1 followed by 0, and an absent or empty one into
\* [1, ..., newStorageLength - 1, 0], for the collection and its aliases;
\* storage [X] without an order becomes order [1, 0].
C6_UploadAdjustment ==
  [][\A id \in Range(UnderwaterIds) \cup {"prensa"} :
       PostUpload(id, FALSE) =>
         \A a \in (IF id = "prensa" THEN {id} ELSE Range(UnderwaterIds)) :
           LET old == OrderOf(galleryOrders, a)
               new == OrderOf(galleryOrders', a)
               newStorageLength == Len(StorageIn(galleryData', a))
           IN /\ a \in DOMAIN galleryOrders'
              /\ newStorageLength = Len(StorageIn(galleryData, a)) + 1
              /\ Len(old) > 0 =>
                   new = [i \in 1..(Len(old) + 1) |-> IF i <= Len(old) THEN old[i] + 1 ELSE 0]
              /\ Len(old) = 0 =>
                   new = [i \in 1..newStorageLength |-> IF i < newStorageLength THEN i ELSE 0]
              /\ (Len(old) = 0 /\ Len(StorageIn(galleryData, a)) = 1) => new = <<1, 0>>]_vars

\* a second upload has renumbered the order the first upload created
C6_Witness ==
  /\ request = Request("upload", UnderwaterIds[1])
  /\ log = {"Updated existing order"}
  /\ OrderOf(galleryOrders, UnderwaterIds[2]) = <<2, 3, 1, 0>>

\* the images in display order: the persisted order mapped through the
\* storage array (0 where an index has no image), the storage order itself
\* when no order is persisted
DisplayOf(gd, go, id) ==
  LET images == StorageIn(gd, id)
      order == OrderOf(go, id)
  IN IF Len(order) = 0 THEN images
     ELSE [i \in 1..Len(order) |->
             IF order[i] >= 0 /\ order[i] < Len(images) THEN images[order[i] + 1] ELSE 0]

\* C7: after an upload through an underwater-* exhibition the display
\* sequence of every underwater-* exhibition is its display sequence from
\* before the upload followed by the uploaded image.
C7_UploadDisplayedLast ==
  [][\A id \in Range(UnderwaterIds) :
       PostUpload(id, FALSE) =>
         \A a \in Range(UnderwaterIds) :
           DisplayOf(galleryData', galleryOrders', a)
             = Append(DisplayOf(galleryData, galleryOrders, a), clock')]_vars

\* an upload through the second alias has followed a manual reorder: the
\* first alias displays image 2, image 1, then the uploaded image
C7_Witness ==
  /\ request = Request("upload", UnderwaterIds[2])
  /\ log = {"Updated existing order"}
  /\ DisplayOf(galleryData, galleryOrders, UnderwaterIds[1]) = <<2, 1, clock>>

\* the order without the first occurrence of d
WithoutFirst(order, d) ==
  IF \E i \in 1..Len(order) : order[i] = d
  THEN LET p == CHOOSE i \in 1..Len(order) : order[i] = d /\ \A j \in 1..(i - 1) : order[j] # d
       IN SubSeq(order, 1, p - 1) \o SubSeq(order, p + 1, Len(order))
  ELSE order

\* C8: the delete adjustment for position d removes the first occurrence
\* of d (nothing when d does not occur), decrements every remaining value
\* above d and leaves the others unchanged; [3,1,0,2] with d = 1 gives
\* [2,0,1].
C8_DeleteAdjustment ==
  engine.op = "delete" =>
    LET rest == WithoutFirst(engine.order, engine.d)
    IN /\ Len(engine.out) = Len(rest)
       /\ \A i \in 1..Len(rest) :
            engine.out[i] = IF rest[i] > engine.d THEN rest[i] - 1 ELSE rest[i]
       /\ (engine.order = <<3, 1, 0, 2>> /\ engine.d = 1) => engine.out = <<2, 0, 1>>

\* the adjustment has been applied to [3,1,0,2] for position 1
C8_Witness ==
  /\ engine.op = "delete"
  /\ engine.order = <<3, 1, 0, 2>>
  /\ engine.d = 1
  /\ engine.out = <<2, 0, 1>>

\* C9: after an image delete has adjusted the persisted orders, no order of
\* the underwater-* exhibitions holds a value outside [0, new storage
\* length), whatever the order was before.
C9_DeleteDropsOutOfRange ==
  (/\ request.route = "delete"
   /\ response.status = 200
   /\ log \cap {"Removed index", "Index not found in order"} # {}) =>
    \A a \in Range(UnderwaterIds) :
      InRange(OrderOf(galleryOrders, a), Len(StorageIn(galleryData, a)))

\* C10: a successful delete of the gallery section at index k, with a
\* 'gallery-sections' order persisted, leaves that order without its first
\* k and with every value above k decremented, what then lies outside the
\* shortened list dropped; nothing is dropped from a duplicate-free order of
\* positions of the list.  Deleting index 8 of 10 sections is the example.
C10_SectionDeleteCascades ==
  /\ OnDeleteSection(<<9, 8, 0, 1, 2, 3, 4, 5, 6, 7>>, 8, 9) = <<8, 0, 1, 2, 3, 4, 5, 6, 7>>
  /\ [][\A id \in SectionNames :
          (/\ DeleteGallerySection(id)
           /\ response'.status = 200
           /\ stateFile = "ok"
           /\ "gallery-sections" \in DOMAIN galleryOrders)
            => LET k == CHOOSE i \in 0..(Len(galleryData.gallerySections) - 1) :
                          /\ galleryData.gallerySections[i + 1].id = id
                          /\ \A j \in 0..(i - 1) : galleryData.gallerySections[j + 1].id # id
                   old == galleryOrders["gallery-sections"]
                   new == galleryOrders'["gallery-sections"]
                   rest == WithoutFirst(old, k)
                   renumbered == [i \in 1..Len(rest) |-> IF rest[i] > k THEN rest[i] - 1 ELSE rest[i]]
                   newLength == Len(galleryData'.gallerySections)
                   Kept(v) == v >= 0 /\ v < newLength
               IN /\ newLength = Len(galleryData.gallerySections) - 1
                  /\ new = SelectSeq(renumbered, Kept)
                  /\ (InRange(old, newLength + 1) /\ IsDuplicateFree(old)) => new = renumbered]_vars

\* the first of two sections has just been deleted and the meta order that
\* listed both now lists the remaining one at index 0
C10_Witness ==
  /\ request = Request("delete-gallery-section", "retratos")
  /\ response.status = 200
  /\ "Updated gallery-sections order" \in log
  /\ Len(galleryData.gallerySections) = 1
  /\ galleryData.gallerySections[1].id = "prensa"
  /\ galleryOrders["gallery-sections"] = <<0>>

\* C11: the delete adjustment of the section list and the one of an image
\* array are the same function: for every order and every deleted position
\* of a storage of length n, the section-level adjustment for the new length
\* n - 1 gives the order the image-level adjustment gives.
C11_MetaAndItemDeleteAgree ==
  (engine.op = "delete" /\ engine.d < engine.n) =>
    OnDeleteSection(engine.order, engine.d, engine.n - 1) = engine.out

\* C12: creating a gallery section, which goes to position 0 of the section
\* list, applies the append-at-front adjustment to a persisted non-empty
\* 'gallery-sections' order before it answers: every value + 1 and 0 at the
\* end, so that the ordered sections keep their places and the new section
\* is displayed last.
C12_CreateSectionAdjustsMetaOrder ==
  [][\A name \in DOMAIN SectionIdOf :
       (/\ CreateGallerySection(name)
        /\ Len(OrderOf(galleryOrders, "gallery-sections")) > 0)
         => LET old == galleryOrders["gallery-sections"]
            IN OrderOf(galleryOrders', "gallery-sections")
                 = [i \in 1..(Len(old) + 1) |-> IF i <= Len(old) THEN old[i] + 1 ELSE 0]]_vars

\* C13: once a gallery section has been deleted, state.json holds neither
\* an order nor text-image tags under its id, so that a section created
\* later with the same id starts without an order.
C13_SectionDeleteDropsItsEntries ==
  (/\ request.route = "delete-gallery-section"
   /\ response.status = 200
   /\ ~isGallerySection(galleryData, request.exhibitionId)) =>
    /\ request.exhibitionId \notin DOMAIN galleryOrders
    /\ request.exhibitionId \notin DOMAIN textImages

\* C14: after any sequence of uploads, text-image creations and deletes, a
\* storage position of a collection is tagged in text_images exactly when
\* the image stored at that position is a generated text image.
C14_TextImageTagsFollowItems ==
  \A id \in CollectionIds :
    \A p \in 0..(Len(StorageIn(galleryData, id)) - 1) :
      (p \in Range(OrderOf(textImages, id))) <=> IsTextImage(StorageIn(galleryData, id)[p + 1])

\* C15: a reorder addressed to 'gallery-sections' or 'exhibitions' is
\* never validated: for every submitted array, out-of-range and duplicate
\* values included, the document the handler writes holds exactly that array
\* under the meta id and every other order as it was; and every such step of
\* the handler is the handler's step for the array now persisted and changes
\* no other id's order.
C15_MetaReorderVerbatim ==
  /\ [](\A id \in MetaIds, order \in MetaOrders :
          LET written == OnExplicitReorder(galleryData, galleryOrders, id, order)
          IN /\ DOMAIN written = DOMAIN galleryOrders \cup {id}
             /\ written[id] = order
             /\ \A k \in DOMAIN galleryOrders \ {id} : written[k] = galleryOrders[k])
  /\ [][(request'.route = "gallery-order" /\ request'.exhibitionId \in MetaIds) =>
          /\ request'.exhibitionId \in DOMAIN galleryOrders'
          /\ PostGalleryOrder(request'.exhibitionId, galleryOrders'[request'.exhibitionId])
          /\ \A k \in (DOMAIN galleryOrders \cup DOMAIN galleryOrders') \ {request'.exhibitionId} :
               OrderRetained(k)]_vars

\* 'gallery-sections' has just been given an order whose value 1 is outside
\* the one-section list and occurs twice, with the other orders in place
C15_Witness ==
  /\ request = Request("gallery-order", "gallery-sections")
  /\ response.status = 200
  /\ OrderOf(galleryOrders, "gallery-sections") = <<1, 1>>
  /\ OrderOf(galleryOrders, "exhibitions") = <<-1, 0>>
  /\ OrderOf(galleryOrders, "prensa") = <<0>>
  /\ OrderOf(galleryOrders, UnderwaterIds[1]) = <<1, 0>>

\* the ids the claim's resolver names for id: id alone for a gallery
\* section and for an id without the 'underwater-' prefix, otherwise all
\* exhibitions of galleryData.json with the prefix (id alone when none is known)
AliasGroup(gd, id) ==
  LET prefixed == {"underwater-carboneria", "underwater-babel", "underwater-expo"}
      known == {gd.exhibitions[i].id : i \in 1..Len(gd.exhibitions)} \cap prefixed
  IN IF \E i \in 1..Len(gd.gallerySections) : gd.gallerySections[i].id = id THEN {id}
     ELSE IF id \notin prefixed THEN {id}
     ELSE IF known = {} THEN {id} ELSE known

\* every value of the order is a position of the storage array of id (no
\* position exists when galleryData.json does not hold id)
AcceptableOrder(gd, id, order) ==
  LET all == gd.exhibitions \o gd.gallerySections
      n == IF \E i \in 1..Len(all) : all[i].id = id
           THEN Len(all[CHOOSE i \in 1..Len(all) : all[i].id = id].images) ELSE 0
  IN \A i \in 1..Len(order) : order[i] >= 0 /\ order[i] < n

\* C16: the alias resolver returns the id alone for a gallery section and
\* for an exhibition id without the 'underwater-' prefix, and all known
\* exhibition ids with the prefix for an id with it, each once; and an
\* accepted reorder writes the submitted order to every id the resolver
\* returns and to no other.
C16_AliasResolver ==
  /\ [](\A id \in ResolverIds :
          LET ids == findMatchingExhibitionIds(galleryData, id)
          IN /\ Range(ids) = AliasGroup(galleryData, id)
             /\ Len(ids) = Cardinality(Range(ids)))
  /\ [](\A id \in ResolverIds, order \in ResolverOrders :
          AcceptableOrder(galleryData, id, order) =>
            LET written == OnExplicitReorder(galleryData, galleryOrders, id, order)
                group == AliasGroup(galleryData, id)
            IN /\ DOMAIN written = DOMAIN galleryOrders \cup group
               /\ \A a \in group : written[a] = order
               /\ \A k \in DOMAIN galleryOrders \ group : written[k] = galleryOrders[k])
  /\ [][(request'.route = "gallery-order" /\ log' = {"Valid order"}) =>
          LET group == AliasGroup(galleryData, request'.exhibitionId)
          IN /\ group \subseteq DOMAIN galleryOrders'
             /\ \A a, b \in group : galleryOrders'[a] = galleryOrders'[b]
             /\ \A a \in group : PostGalleryOrder(request'.exhibitionId, galleryOrders'[a])
             /\ \A k \in (DOMAIN galleryOrders \cup DOMAIN galleryOrders') \ group :
                  OrderRetained(k)]_vars

\* a reorder through the second alias has been accepted and both aliases
\* hold the submitted order, while dream-worlds and prensa keep their own
C16_Witness ==
  /\ request = Request("gallery-order", UnderwaterIds[2])
  /\ log = {"Valid order"}
  /\ OrderOf(galleryOrders, UnderwaterIds[1]) = <<1>>
  /\ OrderOf(galleryOrders, UnderwaterIds[2]) = <<1>>
  /\ OrderOf(galleryOrders, OtherExhibitionId) = <<0>>
  /\ OrderOf(galleryOrders, "prensa") = <<0>>

\* the request answered 200 with success
Succeeded(resp) == resp.status = 200 /\ resp.success

\* C17: when the state.json update of an image upload, an image delete or
\* a section delete throws, the storage array still gets the insert or the
\* removal, the request still reports success, and state.json is as before.
C17_BookkeepingFailureIsolated ==
  [][WriteThrows(stateFile) =>
       /\ \A id \in FailureIds :
            (PostUpload(id, FALSE) /\ id \in CollectionIds) =>
              /\ \A a \in AliasGroup(galleryData, id) :
                   StorageIn(galleryData', a) = <<clock'>> \o StorageIn(galleryData, a)
              /\ Succeeded(response')
              /\ galleryOrders' = galleryOrders
       /\ \A id \in FailureIds, src \in FailureImageSrcs :
            (/\ DeleteImage(id, src)
             /\ id \in CollectionIds
             /\ src \in Range(StorageIn(galleryData, id))
             /\ Len(OrderOf(galleryOrders, id)) > 0) =>
              /\ \A a \in AliasGroup(galleryData, id) :
                   StorageIn(galleryData', a) = WithoutFirst(StorageIn(galleryData, a), src)
              /\ Succeeded(response')
              /\ galleryOrders' = galleryOrders
       /\ \A id \in SectionNames :
            (/\ DeleteGallerySection(id)
             /\ id \in CollectionIds
             /\ "gallery-sections" \in DOMAIN galleryOrders) =>
              /\ Len(galleryData'.gallerySections) = Len(galleryData.gallerySections) - 1
              /\ Succeeded(response')
              /\ galleryOrders' = galleryOrders]_vars

\* an image delete has just answered 200 after its state.json update threw:
\* the storage lost the image, the order still has both entries
C17_Witness ==
  /\ stateFile = "unwritable"
  /\ request = Request("delete", UnderwaterIds[1])
  /\ log = {"Error updating state.json"}
  /\ Succeeded(response)
  /\ Len(StorageIn(galleryData, UnderwaterIds[1])) = 1
  /\ OrderOf(galleryOrders, UnderwaterIds[1]) = <<1, 0>>

\* the order an insert at the front or the removal of one position of the
\* storage array calls for, given the order persisted before
AdjustedOrder(old, storage, storageAfter) ==
  IF Len(storageAfter) = Len(storage) + 1
  THEN IF Len(old) > 0
       THEN [i \in 1..(Len(old) + 1) |-> IF i <= Len(old) THEN old[i] + 1 ELSE 0]
       ELSE [i \in 1..Len(storageAfter) |-> IF i < Len(storageAfter) THEN i ELSE 0]
  ELSE IF Len(old) = 0 THEN old
       ELSE LET d == (CHOOSE q \in 1..Len(storage) :
                        storageAfter = SubSeq(storage, 1, q - 1) \o SubSeq(storage, q + 1, Len(storage))) - 1
                rest == WithoutFirst(old, d)
            IN [i \in 1..Len(rest) |-> IF rest[i] > d THEN rest[i] - 1 ELSE rest[i]]

\* C18: between requests no state is visible in which the storage array of
\* an underwater-* exhibition has gained or lost an image while its
\* persisted order has not been adjusted for it: every step that changes
\* the storage array leaves the adjusted order.
C18_StorageAndOrderMoveTogether ==
  [][\A a \in Range(UnderwaterIds) :
       StorageIn(galleryData', a) # StorageIn(galleryData, a) =>
         OrderOf(galleryOrders', a)
           = AdjustedOrder(OrderOf(galleryOrders, a), StorageIn(galleryData, a), StorageIn(galleryData', a))]_vars

\* what the handlers log when a write of galleryData.json or of state.json
\* threw
WriteErrorLogs ==
  {"Error updating state.json", "Error updating galleryData.json",
   "Error removing from galleryData.json"}

\* C19: an upload, image delete or section delete either persists all of
\* its writes or fails and leaves the storage arrays of every collection
\* and the state.json document exactly as before: a step in which a write
\* threw changes neither.
C19_AllOrNothing ==
  [][(log' \cap WriteErrorLogs # {} \/ ~Succeeded(response')) =>
       UNCHANGED <<galleryData, galleryOrders, textImages>>]_vars

\* C20: every handler that mutates state.json reads the whole document,
\* computes the new one and writes it back as one unit: while a handler
\* stands between its read and its write, the document in state.json is
\* the one it read, whatever other requests are in flight.
C20_ReadModifyWriteIsOneUnit ==
  \A s \in 1..MaxInFlight :
    eventLoop.callbacks[s].pc = "read" => eventLoop.callbacks[s].document = StateDocument

\* a handler stands between its read and its write while another request
\* is waiting for the event loop, after an earlier request changed the
\* document
C20_Witness ==
  \E s, t \in 1..MaxInFlight :
    /\ eventLoop.callbacks[s].pc = "read"
    /\ eventLoop.callbacks[t].pc = "queued"
    /\ eventLoop.callbacks[s].route # eventLoop.callbacks[t].route
    /\ eventLoop.callbacks[s].document.favorites # <<>>

\* two delete requests for different images, one between its read and its
\* write of state.json, the other waiting for the event loop
OverlappingDeletes(s, t) ==
  /\ eventLoop.callbacks[s].pc = "read"
  /\ eventLoop.callbacks[s].route = "delete"
  /\ eventLoop.callbacks[t].pc = "queued"
  /\ eventLoop.callbacks[t].route = "delete"
  /\ eventLoop.callbacks[t].imageSrc # eventLoop.callbacks[s].imageSrc

\* C21 as stated: of two overlapping delete requests on one collection
\* both can read state.json before either writes, that is, while one
\* stands between its read and its write the other's read can happen.
C21_OverlappingDeletesBothRead ==
  \A s, t \in 1..MaxInFlight : OverlappingDeletes(s, t) => ENABLED BeginHandler(t)

\* C21 amended: two overlapping delete requests never both stand between
\* read and write of state.json, and each delete writes the adjustment of
\* the order persisted right before its write, so the persisted order is
\* the result of applying the deletes one after the other.
C21_DeletesApplyOneAfterTheOther ==
  /\ [](\A s, t \in 1..MaxInFlight :
          (eventLoop.callbacks[s].pc = "read" /\ eventLoop.callbacks[t].pc = "read") => s = t)
  /\ [][\A s \in 1..MaxInFlight :
          (/\ eventLoop.callbacks[s].pc = "read"
           /\ eventLoop.callbacks[s].route = "delete"
           /\ eventLoop'.callbacks[s].pc = "idle")
          => galleryOrders' = updateStateAfterDelete(galleryData, galleryOrders,
                                                     eventLoop.callbacks[s].exhibitionId,
                                                     eventLoop.callbacks[s].deletedIndex).orders]_vars

\* a delete stands between its read and its write of state.json while a
\* delete of another image of the same exhibition is in flight
C21_Witness ==
  \E s, t \in 1..MaxInFlight :
    /\ OverlappingDeletes(s, t)
    /\ eventLoop.callbacks[s].exhibitionId = eventLoop.callbacks[t].exhibitionId
    /\ eventLoop.callbacks[s].deletedIndex # NotFound

\* C22: when state.json cannot be parsed, an upload, an image delete, an
\* explicit reorder and a section delete go on as with an absent document
\* and complete: the upload (to a collection galleryData.json holds) and
\* the reorder answer success and write what
\* they write for an absent document, the deletes answer success whenever
\* they removed something from galleryData.json and persist no order.
C22_UnparsableDocumentIsAbsent ==
  [][stateFile = "corrupt" =>
       LET id == request'.exhibitionId
           route == request'.route
       IN /\ (route = "upload" /\ id \in CollectionIds) =>
               /\ Succeeded(response')
               /\ StorageIn(galleryData', id) # StorageIn(galleryData, id)
               /\ galleryOrders' = updateStateWithNewImage(galleryData', <<>>, id,
                                     getImageCount(galleryData, id, isGallerySection(galleryData, id)))
          /\ route = "gallery-order" =>
               /\ Succeeded(response')
               /\ \E order \in CorruptOrders :
                    galleryOrders' = OnExplicitReorder(galleryData, <<>>, id, order)
               /\ galleryData' = galleryData
          /\ route = "delete" =>
               /\ galleryData' # galleryData => Succeeded(response')
               /\ galleryOrders' = <<>>
          /\ route = "delete-gallery-section" =>
               /\ galleryData' # galleryData => Succeeded(response')
               /\ galleryOrders' = <<>>]_vars

\* an upload found state.json unparsable, answered success and left the
\* order of an absent document
C22_Witness ==
  /\ request.route = "upload"
  /\ Succeeded(response)
  /\ stateFile = "ok"
  /\ DOMAIN galleryOrders = {request.exhibitionId}
  /\ galleryOrders[request.exhibitionId] = <<1, 0>>
  /\ textImages = <<>>

\* C24: after any uploads, deletes and accepted reorders through the
\* underwater-* exhibitions, every value of the persisted order of each
\* of them is a position of its storage array: at least 0 and below the
\* number of images stored.
C24_PersistedOrderInRange ==
  \A id \in Range(UnderwaterIds) :
    \A i \in 1..Len(OrderOf(galleryOrders, id)) :
      /\ OrderOf(galleryOrders, id)[i] >= 0
      /\ OrderOf(galleryOrders, id)[i] < Len(StorageIn(galleryData, id))

\* an image that galleryData.json held for the id at the start has been
\* deleted
DeletedSinceStart(id) ==
  Range(StorageIn(InitialGalleryData, id)) \ Range(StorageIn(galleryData, id)) # {}

\* order is a permutation of the positions 0..n-1
IsPermutationOfPositions(order, n) ==
  Len(order) = n /\ \A k \in 0..(n - 1) : \E i \in 1..n : order[i] = k

\* C25: an order that was a full permutation of an underwater-*
\* exhibition's positions before a deletion is never accepted after the
\* deletion, with or without uploads in between: no reorder step after a
\* deletion accepts and persists a permutation of the positions the
\* exhibition had at the start.
C25_PreDeletionPermutationNeverAccepted ==
  [][~(/\ request'.route = "gallery-order"
       /\ log' = {"Valid order"}
       /\ request'.exhibitionId \in Range(UnderwaterIds)
       /\ DeletedSinceStart(request'.exhibitionId)
       /\ IsPermutationOfPositions(galleryOrders'[request'.exhibitionId],
                                   Len(StorageIn(InitialGalleryData, request'.exhibitionId))))]_vars

\* C26: a successful image delete on an underwater-* exhibition whose
\* persisted order is a duplicate-free permutation of its storage
\* positions leaves, for that exhibition and its alias, the display
\* sequence of before without the deleted image, the other images in the
\* same sequence.
C26_DeleteKeepsDisplaySequence ==
  [][\A a \in Range(UnderwaterIds) :
       (/\ request'.route = "delete"
        /\ request'.exhibitionId \in Range(UnderwaterIds)
        /\ Succeeded(response')
        /\ IsPermutationOfPositions(OrderOf(galleryOrders, a), Len(StorageIn(galleryData, a))))
       => LET Kept(x) == x \in Range(StorageIn(galleryData', request'.exhibitionId))
          IN /\ Len(StorageIn(galleryData', request'.exhibitionId))
                  = Len(StorageIn(galleryData, request'.exhibitionId)) - 1
             /\ DisplayOf(galleryData', galleryOrders', a)
                  = SelectSeq(DisplayOf(galleryData, galleryOrders, a), Kept)]_vars

\* an image of a three-image exhibition was deleted and the order left
\* is a permutation other than the storage order
C26_Witness ==
  /\ request.route = "delete"
  /\ request.exhibitionId = UnderwaterIds[1]
  /\ Succeeded(response)
  /\ "Removed index" \in log
  /\ OrderOf(galleryOrders, UnderwaterIds[2]) = <<1, 0>>
  /\ Len(StorageIn(galleryData, UnderwaterIds[2])) = 2

\* C27: an upload, image delete or reorder addressed to a collection
\* changes, in a parseable state.json, only the orders of the ids of that
\* collection's alias group: the orders of every other collection, both
\* meta orders, favorites and the text_images of the other collections
\* stay as they were.
C27_OnlyAliasGroupOrdersChange ==
  [][LET group == Range(findMatchingExhibitionIds(galleryData, request'.exhibitionId))
     IN /\ \A k \in (DOMAIN galleryOrders \cup DOMAIN galleryOrders') \ group : OrderRetained(k)
        /\ \A m \in MetaIds : OrderRetained(m)
        /\ favorites' = favorites
        /\ \A k \in (DOMAIN textImages \cup DOMAIN textImages') \ group :
             /\ k \in DOMAIN textImages /\ k \in DOMAIN textImages'
             /\ textImages'[k] = textImages[k]]_vars

\* state.json still holds the orders of the other collections, both meta
\* orders, text_images and favorites after an upload, a delete and an
\* accepted reorder changed the orders of the underwater-* exhibitions
C27_Witness ==
  /\ request.route = "gallery-order"
  /\ request.exhibitionId = UnderwaterIds[1]
  /\ log = {"Valid order"}
  /\ clock > InitialImages
  /\ Len(StorageIn(galleryData, UnderwaterIds[1])) = 2
  /\ galleryOrders[UnderwaterIds[2]] = <<1>>
  /\ galleryOrders["exhibitions"] = <<2, 0, 1>>
  /\ galleryOrders["prensa"] = <<0>>
  /\ favorites # <<>>

\* C28: the underwater-* exhibitions start with identical storage arrays,
\* and after any uploads and deletes requested through any of them their
\* storage arrays are still identical: the same images at the same
\* positions.
C28_AliasStoragesIdentical ==
  \A a, b \in Range(UnderwaterIds) : StorageIn(galleryData, a) = StorageIn(galleryData, b)

\* an image uploaded through one alias is stored in the other, after a
\* delete requested through the other removed a start image from both
C28_Witness ==
  /\ request = Request("delete", UnderwaterIds[2])
  /\ Succeeded(response)
  /\ clock > InitialImages
  /\ Len(StorageIn(galleryData, UnderwaterIds[1])) = 2
  /\ \E i \in 1..2 : StorageIn(galleryData, UnderwaterIds[1])[i] > InitialImages
  /\ \E i \in 1..2 : StorageIn(galleryData, UnderwaterIds[2])[i] <= InitialImages

\* C29: an image delete whose imageSrc the addressed collection does not
\* hold answers an error and changes no storage array and nothing in
\* state.json: for every collection and every src it does not hold the
\* removal throws before any write, and every delete step that removed
\* nothing answers 500 and leaves galleryData.json and state.json alone.
C29_DeleteOfUnknownSrcChangesNothing ==
  /\ [](\A c \in Range(UnderwaterIds) \cup {"prensa"}, src \in ImageSrcs :
          (c \in CollectionIds /\ src \notin Range(StorageIn(galleryData, c))) =>
            LET isGallery == isGallerySection(galleryData, c)
                deletedIndex == findImageIndex(galleryData, c, src, isGallery)
                r == IF isGallery
                     THEN removeImageFromGallerySectionData(galleryData, c, src, deletedIndex)
                     ELSE removeImageFromGalleryData(galleryData, c, src, deletedIndex)
            IN /\ deletedIndex = NotFound
               /\ ~r.ok
               /\ r.data = galleryData
               /\ ~Succeeded(DeleteResponse(r.ok, FALSE)))
  /\ [][(request'.route = "delete" /\ galleryData' = galleryData) =>
          /\ response'.status = 500
          /\ ~response'.success
          /\ UNCHANGED <<stateFile, galleryOrders, textImages, favorites>>]_vars

\* a delete of a src the exhibition does not hold was answered with 500
\* while orders are persisted and an upload had happened
C29_Witness ==
  /\ request = Request("delete", UnderwaterIds[1])
  /\ response.status = 500
  /\ log = {"Error removing from galleryData.json"}
  /\ clock > InitialImages
  /\ Len(OrderOf(galleryOrders, UnderwaterIds[1])) = 3
  /\ Len(StorageIn(galleryData, UnderwaterIds[1])) = 3

\* images is before with the entries at the positions p and q (counted
\* from 1) exchanged
Exchanged(images, before, p, q) ==
  /\ Len(images) = Len(before)
  /\ images[p] = before[q]
  /\ images[q] = before[p]
  /\ \A k \in 1..Len(before) : k \notin {p, q} => images[k] = before[k]

\* C23: a work image reorder with direction 'left' swaps the image with
\* its predecessor, or moves it to the end when it is first; with 'right'
\* it swaps the image with its successor, or moves it to the front when
\* it is last; with fewer than 2 images or an image url the work does not
\* hold it answers an error and the images array is unchanged.
C23_WorkImageReorder ==
  LET b == portfolio.before
      n == Len(b)
      p == IndexOf(b, portfolio.imageUrl) + 1
  IN /\ (portfolio.status = 200 /\ portfolio.direction = "left") =>
          IF p = 1 THEN portfolio.images = SubSeq(b, 2, n) \o <<b[1]>>
          ELSE Exchanged(portfolio.images, b, p - 1, p)
     /\ (portfolio.status = 200 /\ portfolio.direction = "right") =>
          IF p = n THEN portfolio.images = <<b[n]>> \o SubSeq(b, 1, n - 1)
          ELSE Exchanged(portfolio.images, b, p, p + 1)
     /\ (portfolio.status # 0 /\ (n < 2 \/ portfolio.imageUrl \notin Range(b))) =>
          /\ portfolio.status \in {400, 404}
          /\ ~Succeeded(response)
          /\ portfolio.images = b
     /\ portfolio.status = 200 => (n >= 2 /\ portfolio.imageUrl \in Range(b) /\ Succeeded(response))

\* the first of three images was reordered 'left' and is now the last
C23_Witness ==
  /\ portfolio.status = 200
  /\ portfolio.direction = "left"
  /\ Len(portfolio.before) = 3
  /\ portfolio.before[1] = portfolio.imageUrl
  /\ portfolio.images[3] = portfolio.imageUrl
  /\ portfolio.images[1] # portfolio.imageUrl

\* C30: for a work whose image urls are pairwise distinct every
\* successful reorder leaves a permutation of the images (same length,
\* same urls), and a successful 'left' followed by 'right' for the same
\* image, or 'right' followed by 'left', restores the array of before
\* the two requests, also around the first and the last position.
C30_ReorderPermutesAndInverts ==
  /\ []((portfolio.status = 200 /\ IsDuplicateFree(portfolio.before)) =>
          /\ Len(portfolio.images) = Len(portfolio.before)
          /\ Range(portfolio.images) = Range(portfolio.before)
          /\ IsDuplicateFree(portfolio.images))
  /\ [][(/\ portfolio.status = 200
         /\ portfolio'.status = 200
         /\ IsDuplicateFree(portfolio.before)
         /\ portfolio'.imageUrl = portfolio.imageUrl
         /\ portfolio'.direction # portfolio.direction)
        => portfolio'.images = portfolio.before]_vars

\* the first of three different images went to the end with 'left' and
\* came back to the front with 'right'
C30_Witness ==
  /\ portfolio.status = 200
  /\ portfolio.direction = "right"
  /\ Len(portfolio.before) = 3
  /\ IsDuplicateFree(portfolio.before)
  /\ portfolio.before[3] = portfolio.imageUrl
  /\ portfolio.images[1] = portfolio.imageUrl
  /\ request.route = "works-reorder"

====
